---------------------------- MODULE Spec2Model ----------------------------
(***************************************************************************)
(* Trust-Aware-SEO: the crawl-and-extract pipeline.                        *)
(*                                                                         *)
(* A Python str is a sequence of one-character strings, so that            *)
(* urllib.parse.urlparse, urljoin and the crawler's _normalize are         *)
(* computed on the characters, the way the library and the code do.        *)
(***************************************************************************)
EXTENDS Naturals, Integers, Sequences, FiniteSets, TLC

(***************************************************************************)
(* Python str helpers (1-based positions; 0 is Python's "not found" -1).   *)
(***************************************************************************)
SetMin(S) == CHOOSE m \in S : \A k \in S : m <= k

SetMax(S) == CHOOSE m \in S : \A k \in S : m >= k

\* s.find(c, from): the first position >= from holding c, 0 when there is none
Find(s, c, from) ==
  LET I == {i \in from..Len(s) : s[i] = c}
  IN  IF I = {} THEN 0 ELSE SetMin(I)

\* s.rfind(c): the last position holding c, 0 when there is none
Rfind(s, c) ==
  LET I == {i \in 1..Len(s) : s[i] = c}
  IN  IF I = {} THEN 0 ELSE SetMax(I)

\* c in s
Contains(s, c) == \E i \in 1..Len(s) : s[i] = c

\* s[from-1:] of Python, for a 1-based from
Tail_(s, from) == SubSeq(s, from, Len(s))

\* s.startswith(p)
Startswith(s, p) == Len(s) >= Len(p) /\ SubSeq(s, 1, Len(p)) = p

\* s.rstrip(c): every trailing c is removed, not only one
Rstrip(s, c) ==
  LET K == {k \in 0..Len(s) : \A i \in (k+1)..Len(s) : s[i] = c}
  IN  SubSeq(s, 1, SetMin(K))

UpperToLower == [c \in {"A", "H", "J"} |->
                   CASE c = "A" -> "a" [] c = "H" -> "h" [] c = "J" -> "j"]

\* str.lower(), on the letters the model's inputs can spell
Lower(s) == [i \in 1..Len(s) |->
               IF s[i] \in DOMAIN UpperToLower THEN UpperToLower[s[i]] ELSE s[i]]

Letters == {"a", "b", "c", "h", "i", "j", "p", "r", "s", "t", "v", "x", "y", "z",
            "A", "H", "J"}

\* urllib.parse.scheme_chars: letters, digits and "+-."
SchemeChars == Letters \cup {"+", "-", "."}

STR_http == <<"h", "t", "t", "p">>

STR_https == <<"h", "t", "t", "p", "s">>

\* urllib.parse.uses_params, the members the model's letters can spell
UsesParams == {<<>>, STR_http, STR_https, <<"s", "i", "p">>}

\* urllib.parse.uses_relative, the members the model's letters can spell
UsesRelative == {<<>>, STR_http, STR_https}

\* urllib.parse.uses_netloc, the members the model's letters can spell
UsesNetloc == {<<>>, STR_http, STR_https}

\* the value standing for a raised ValueError
ValueError == <<"ValueError">>

(***************************************************************************)
(* urllib.parse.urlsplit / urlparse, as called by _normalize,              *)
(* _same_domain and parse_page.                                            *)
(***************************************************************************)
\* _check_bracketed_host: ipaddress accepts the host; of the hosts the model
\* can spell without digits only "::" is an address
BracketedHostOk(netloc) ==
  LET lb   == Find(netloc, "[", 1)
      rb   == Find(netloc, "]", lb + 1)
      host == SubSeq(netloc, lb + 1, rb - 1)
  IN  rb > 0 /\ host = <<":", ":">>

\* _splitnetloc(url, 2): the position of the first of "/?#" after the "//"
NetlocEnd(url) ==
  LET D == {Find(url, c, 3) : c \in {"/", "?", "#"}} \ {0}
  IN  IF D = {} THEN Len(url) + 1 ELSE SetMin(D)

(***************************************************************************)
(* Each function is written as a chain of operators that hand their        *)
(* intermediate values on as arguments, one operator per group of          *)
(* statements of the Python function.                                      *)
(***************************************************************************)
\* for c in url[:i]: if c not in scheme_chars: break / else: a scheme ends at i
SchemeEndAt(url, i) ==
  IF /\ i > 1
     /\ url[1] \in Letters
     /\ \A k \in 1..(i-1) : url[k] \in SchemeChars
    THEN i ELSE 0

\* the end of urlsplit: url.split('?', 1), and the SplitResult
SplitQuery(scheme, netloc, err, fragment, u3, q) ==
  [err |-> err, scheme |-> scheme, netloc |-> netloc,
   path |-> IF q > 0 THEN SubSeq(u3, 1, q-1) ELSE u3,
   query |-> IF q > 0 THEN Tail_(u3, q+1) ELSE <<>>,
   fragment |-> fragment]

\* url.split('#', 1)
SplitFragment(scheme, netloc, err, u2, h) ==
  SplitQuery(scheme, netloc, err,
             IF h > 0 THEN Tail_(u2, h+1) ELSE <<>>,
             IF h > 0 THEN SubSeq(u2, 1, h-1) ELSE u2,
             Find(IF h > 0 THEN SubSeq(u2, 1, h-1) ELSE u2, "?", 1))

\* the bracket checks of urlsplit on the netloc: "Invalid IPv6 URL"
NetlocRaises(netloc) ==
  \/ Contains(netloc, "[") /= Contains(netloc, "]")
  \/ (Contains(netloc, "[") /\ Contains(netloc, "]") /\ ~BracketedHostOk(netloc))

\* netloc, url = _splitnetloc(url, 2), with delim the end of the netloc
SplitNetlocAt(scheme, u1, delim) ==
  SplitFragment(scheme, SubSeq(u1, 3, delim - 1),
                NetlocRaises(SubSeq(u1, 3, delim - 1)),
                Tail_(u1, delim), Find(Tail_(u1, delim), "#", 1))

\* if url[:2] == '//'
SplitNetloc(scheme, u1) ==
  IF Startswith(u1, <<"/", "/">>)
    THEN SplitNetlocAt(scheme, u1, NetlocEnd(u1))
    ELSE SplitFragment(scheme, <<>>, FALSE, u1, Find(u1, "#", 1))

\* scheme, url = url[:i].lower(), url[i+1:]
SplitScheme(url, dflt, i) ==
  IF i > 0
    THEN SplitNetloc(Lower(SubSeq(url, 1, i-1)), Tail_(url, i+1))
    ELSE SplitNetloc(dflt, url)

\* urlsplit(url, scheme=dflt): dflt is the scheme of a url that names none
Urlsplit(url, dflt) == SplitScheme(url, dflt, SchemeEndAt(url, Find(url, ":", 1)))

\* _splitparams(url): the position of the ";" that starts the params, 0 if none
SplitparamsAt(path) ==
  IF Contains(path, "/")
    THEN Find(path, ";", Rfind(path, "/"))
    ELSE Find(path, ";", 1)

\* url, params = _splitparams(url), and the ParseResult
ParseResultAt(sp, i) ==
  [err |-> sp.err, scheme |-> sp.scheme, netloc |-> sp.netloc,
   path |-> IF i > 0 THEN SubSeq(sp.path, 1, i-1) ELSE sp.path,
   params |-> IF i > 0 THEN Tail_(sp.path, i+1) ELSE <<>>,
   query |-> sp.query, fragment |-> sp.fragment]

\* if scheme in uses_params and ';' in url
ParseResultOf(sp) ==
  ParseResultAt(sp, IF sp.scheme \in UsesParams /\ Contains(sp.path, ";")
                      THEN SplitparamsAt(sp.path) ELSE 0)

\* urlparse(url, scheme=dflt)
UrlparseD(url, dflt) == ParseResultOf(Urlsplit(url, dflt))

\* urlparse(url)
Urlparse(url) == UrlparseD(url, <<>>)

\* urlunsplit, from "if scheme:" on
UnsplitTail(scheme, url, query, fragment) ==
  (IF scheme /= <<>> THEN scheme \o <<":">> ELSE <<>>)
  \o url
  \o (IF query /= <<>> THEN <<"?">> \o query ELSE <<>>)
  \o (IF fragment /= <<>> THEN <<"#">> \o fragment ELSE <<>>)

\* urlunsplit((scheme, netloc, url, query, fragment))
Urlunsplit(scheme, netloc, url, query, fragment) ==
  IF \/ netloc /= <<>>
     \/ (scheme /= <<>> /\ scheme \in UsesNetloc /\ ~Startswith(url, <<"/", "/">>))
    THEN UnsplitTail(scheme,
                     <<"/", "/">> \o netloc
                       \o (IF url /= <<>> /\ url[1] /= "/" THEN <<"/">> ELSE <<>>)
                       \o url,
                     query, fragment)
    ELSE UnsplitTail(scheme, url, query, fragment)

\* urlunparse((scheme, netloc, url, params, query, fragment))
Urlunparse(scheme, netloc, url, params, query, fragment) ==
  Urlunsplit(scheme, netloc,
             IF params /= <<>> THEN url \o <<";">> \o params ELSE url,
             query, fragment)

RECURSIVE Split(_, _)
\* s.split(c): always at least one segment
Split(s, c) ==
  IF Find(s, c, 1) = 0 THEN <<s>>
  ELSE <<SubSeq(s, 1, Find(s, c, 1) - 1)>> \o Split(Tail_(s, Find(s, c, 1) + 1), c)

RECURSIVE Join(_, _)
\* c.join(segs)
Join(segs, c) ==
  IF segs = <<>> THEN <<>>
  ELSE IF Len(segs) = 1 THEN segs[1]
  ELSE segs[1] \o <<c>> \o Join(Tail(segs), c)

\* segments[1:-1] = filter(None, segments[1:-1])
FilterMiddle(segs) ==
  IF Len(segs) < 2 THEN segs
  ELSE <<segs[1]>>
       \o SelectSeq(SubSeq(segs, 2, Len(segs) - 1), LAMBDA g : g /= <<>>)
       \o <<segs[Len(segs)]>>

RECURSIVE ResolveDots(_, _)
\* the loop of urljoin over segments: ".." pops, "." is skipped
ResolveDots(segs, acc) ==
  IF segs = <<>> THEN acc
  ELSE IF Head(segs) = <<".", ".">>
    THEN ResolveDots(Tail(segs),
                     IF acc = <<>> THEN acc ELSE SubSeq(acc, 1, Len(acc) - 1))
  ELSE IF Head(segs) = <<".">> THEN ResolveDots(Tail(segs), acc)
  ELSE ResolveDots(Tail(segs), Append(acc, Head(segs)))

\* base_parts = bpath.split('/'); if base_parts[-1] != '': del base_parts[-1]
BaseParts(bp) ==
  IF bp[Len(bp)] /= <<>> THEN SubSeq(bp, 1, Len(bp) - 1) ELSE bp

\* the segments of the joined path
JoinSegments(bpath, path) ==
  IF path /= <<>> /\ path[1] = "/"
    THEN Split(path, "/")
    ELSE FilterMiddle(BaseParts(Split(bpath, "/")) \o Split(path, "/"))

\* '/'.join(resolved_path) or '/'
OrSlash(joined) == IF joined = <<>> THEN <<"/">> ELSE joined

\* resolved_path, with the '' appended after a last segment "." or ".."
ResolvedPath(segments) ==
  OrSlash(Join(IF segments[Len(segments)] \in {<<".">>, <<".", ".">>}
                 THEN Append(ResolveDots(segments, <<>>), <<>>)
                 ELSE ResolveDots(segments, <<>>),
               "/"))

\* urljoin after both urlparse calls
JoinParsed(url, b, u) ==
  IF b.err \/ u.err THEN ValueError
  ELSE IF u.scheme /= b.scheme \/ u.scheme \notin UsesRelative THEN url
  ELSE IF u.scheme \in UsesNetloc /\ u.netloc /= <<>>
    THEN Urlunparse(u.scheme, u.netloc, u.path, u.params, u.query, u.fragment)
  ELSE IF u.path = <<>> /\ u.params = <<>>
    THEN Urlunparse(u.scheme,
                    IF u.scheme \in UsesNetloc THEN b.netloc ELSE u.netloc,
                    b.path, b.params,
                    IF u.query = <<>> THEN b.query ELSE u.query, u.fragment)
  ELSE Urlunparse(u.scheme,
                  IF u.scheme \in UsesNetloc THEN b.netloc ELSE u.netloc,
                  ResolvedPath(JoinSegments(b.path, u.path)),
                  u.params, u.query, u.fragment)

\* urlparse(url, bscheme, allow_fragments)
JoinWithBase(url, b) == JoinParsed(url, b, UrlparseD(url, b.scheme))

\* urljoin(base, url); urlparse's ValueError propagates
Urljoin(base, url) ==
  IF base = <<>> THEN url
  ELSE IF url = <<>> THEN base
  ELSE JoinWithBase(url, UrlparseD(base, <<>>))

(***************************************************************************)
(* crawler.py                                                              *)
(***************************************************************************)
\* one trailing slash stripped, not all of them
NormPath_StripOne(path) ==
  IF Rstrip(path, "/") = <<>> THEN <<"/">>
  ELSE IF path[Len(path)] = "/" THEN SubSeq(path, 1, Len(path) - 1)
  ELSE path

\* path = parsed.path.rstrip("/") or "/"
NormPath(path) ==
  IF Rstrip(path, "/") = <<>> THEN <<"/">> ELSE Rstrip(path, "/")

\* the key with the query string kept
NormalizeParsed_KeepQuery(parsed) ==
  IF parsed.err THEN ValueError
  ELSE parsed.scheme \o <<":", "/", "/">> \o parsed.netloc \o NormPath(parsed.path)
       \o (IF parsed.query = <<>> THEN <<>> ELSE <<"?">> \o parsed.query)

\* f"{parsed.scheme}://{parsed.netloc}{path}"
NormalizeParsed(parsed) ==
  IF parsed.err THEN ValueError
  ELSE parsed.scheme \o <<":", "/", "/">> \o parsed.netloc \o NormPath(parsed.path)

\* _normalize(url); urlparse's ValueError propagates
_normalize(url) == NormalizeParsed(Urlparse(url))

\* _same_domain(base_url, link): base.netloc == other.netloc
_same_domain(base_url, link) ==
  Urlparse(base_url).netloc = Urlparse(link).netloc

(***************************************************************************)
(* parser.py.  An HTML text is the sequence of its elements in document    *)
(* order; "" is <<>>.  An element is a record with a tag and the           *)
(* attributes it has: the href of an <a>, the src and alt of an <img>.     *)
(***************************************************************************)
\* Python's None, and a str where None is possible too
None == [kind |-> "None"]

Str_(s) == [kind |-> "str", v |-> s]

\* str.strip(), of blanks
Strip(s) ==
  IF \A i \in 1..Len(s) : s[i] = " " THEN <<>>
  ELSE SubSeq(s, SetMin({i \in 1..Len(s) : s[i] /= " "}),
                 SetMax({i \in 1..Len(s) : s[i] /= " "}))

STR_javascript == <<"j", "a", "v", "a", "s", "c", "r", "i", "p", "t", ":">>

\* href.startswith("#") or href.lower().startswith("javascript:")
SkippedHref(href) ==
  \/ Startswith(href, <<"#">>)
  \/ Startswith(Lower(href), STR_javascript)

\* the links as collected, repeats and all
DictFromKeys_Keep(links, acc) == acc \o links

RECURSIVE DictFromKeys(_, _)
\* list(dict.fromkeys(links)): the first occurrence of each, in order
DictFromKeys(links, acc) ==
  IF links = <<>> THEN acc
  ELSE DictFromKeys(Tail(links),
                    IF \E i \in 1..Len(acc) : acc[i] = Head(links)
                      THEN acc ELSE Append(acc, Head(links)))

\* one <a href>: "skip" for a fragment or javascript: link, "raise" when
\* urljoin raises, "keep" when parsed.netloc == base.netloc, else "drop"
LinkVerdict(url, href, full) ==
  IF SkippedHref(href) THEN "skip"
  ELSE IF full = ValueError THEN "raise"
  ELSE IF Urlparse(full).netloc = Urlparse(url).netloc THEN "keep"
  ELSE "drop"

RECURSIVE InternalLinks(_, _, _)

\* the body of the loop for one <a href>, href already stripped
InternalLinksStep(url, els, acc, full, verdict) ==
  IF verdict = "raise" THEN ValueError
  ELSE IF verdict = "keep" THEN InternalLinks(url, Tail(els), Append(acc, full))
  ELSE InternalLinks(url, Tail(els), acc)

InternalLinksHref(url, els, acc, href) ==
  InternalLinksStep(url, els, acc, Urljoin(url, href),
                    LinkVerdict(url, href, Urljoin(url, href)))

\* the loop over soup.find_all("a", href=True); ValueError when urljoin raises
InternalLinks(url, els, acc) ==
  IF els = <<>> THEN acc
  ELSE IF ~(Head(els).tag = "a" /\ "href" \in DOMAIN Head(els))
    THEN InternalLinks(url, Tail(els), acc)
  ELSE InternalLinksHref(url, els, acc, Strip(Head(els).href))

\* img.get("alt"): None for an <img> without the attribute, else its value
ImgAlt(img) == IF "alt" \in DOMAIN img THEN Str_(img.alt) ELSE None

\* img.get("src", "")
ImgSrc(img) == IF "src" \in DOMAIN img THEN img.src ELSE <<>>

\* {"src": urljoin(url, img.get("src", "")), "alt": img.get("alt")}
ImageOf(url, img) == [src |-> Urljoin(url, ImgSrc(img)), alt |-> ImgAlt(img)]

RECURSIVE Images(_, _, _)
\* the loop over soup.find_all("img"); the src of an entry is ValueError
\* where urljoin raises
Images(url, els, acc) ==
  IF els = <<>> THEN acc
  ELSE IF Head(els).tag /= "img" THEN Images(url, Tail(els), acc)
  ELSE Images(url, Tail(els), Append(acc, ImageOf(url, Head(els))))

\* the PageData(...) at the end of parse_page
PageDataOf(url, status_code, links, images) ==
  IF links = ValueError \/ (\E i \in 1..Len(images) : images[i].src = ValueError)
    THEN [raises |-> TRUE]
  ELSE [raises |-> FALSE,
        page_data |-> [url |-> url, status_code |-> status_code,
                       internal_links |-> DictFromKeys(links, <<>>),
                       images |-> images]]

\* parse_page(url, html, status_code): the PageData it returns, unless it raises
parse_page(url, html, status_code) ==
  PageDataOf(url, status_code, InternalLinks(url, html, <<>>),
             Images(url, html, <<>>))

(***************************************************************************)
(* The state: one audit request from its entry point (the /audit route of  *)
(* app.py or main of cli.py) through run_audit and crawl_site to the       *)
(* response, and the network the crawl talks to.                           *)
(***************************************************************************)
VARIABLES
  caller,         \* "api" | "cli": the entry point of the request
  target_url,     \* the url argument (seed_url of crawl_site)
  arg_max_pages,  \* the max_pages argument as given: None, NotAnInt or an integer
  env_max_pages,  \* AUDIT_MAX_PAGES: None (unset), NotAnInt or an integer
  pc,             \* the position of the request in the code
  limit,          \* crawl_site's limit
  to_visit,       \* crawl_site's frontier
  visited,        \* crawl_site's visited set
  results,        \* crawl_site's results
  url,            \* the URL dequeued by the current iteration
  status_code,    \* what fetch_page returned for url
  html,
  fetched,        \* every URL passed to fetch_page so far, in order
  exc,            \* the exception raised, if any: its type and the function
                  \* that raised it
  report,         \* the AuditReport run_audit returned, or None
  response,       \* what the entry point answered, or None
  n_url,          \* the input of the _normalize round trip
  n_once,         \* _normalize(n_url)
  n_twice         \* _normalize(_normalize(n_url))

vars == <<caller, target_url, arg_max_pages, env_max_pages, pc, limit, to_visit,
          visited, results, url, status_code, html, fetched, exc, report,
          response, n_url, n_once, n_twice>>

crawlVars == <<limit, to_visit, visited, results, url, status_code, html, fetched>>

inputVars == <<caller, target_url, arg_max_pages, env_max_pages>>

normVars == <<n_url, n_once, n_twice>>

\* an optional integer as a request or the environment carries it: absent
\* (None), text that int() rejects, or an integer
NotAnInt == [kind |-> "str"]

Int_(n) == [kind |-> "int", v |-> n]

NoException == [type |-> "None"]

Raised(type, function) == [type |-> type, raised_in |-> function]

\* n_once and n_twice before they are computed
Unset == <<"unset">>

(***************************************************************************)
(* Inputs.                                                                 *)
(***************************************************************************)
\* the largest page cap the model's requests ask for within the accepted range
MaxPages == 2

\* Query(None, ge=1, le=100)
ApiMinPages == 1

ApiMaxPages == 100

\* CrawlConfig.max_pages when AUDIT_MAX_PAGES is unset
DefaultMaxPages == 50

HostA == <<"h", "t", "t", "p", ":", "/", "/", "a">>

\* the seed URLs of the model's requests
Seeds == {
  HostA,                                      \* http://a
  <<"h", "t", "t", "p", ":", "a">>,           \* http:a    (no authority)
  <<"a", "/", "x">>,                          \* a/x       (no scheme)
  <<"h", "t", "t", "p", ":", "/", "/", "[">>  \* http://[  (urlparse raises)
}

\* the href attributes the site's pages are written with
Hrefs == {
  <<"/">>,                                          \* the root page
  <<"/", "x", "/">>,                                \* page x, with a slash
  <<"x", "?", "q", "#", "f">>,                      \* page x, query and fragment
  <<"/", "y">>,                                     \* page y
  <<"h", "t", "t", "p", ":", "/", "/", "b", "/">>,  \* another host
  <<"/", "/", "[">>                                 \* urljoin raises on it
}

A(href) == [tag |-> "a", href |-> href]

\* the HTML texts the site serves: a paragraph and at most two links
Bodies ==
  {<<[tag |-> "p"]>>}
  \cup {<<[tag |-> "p"], A(h)>> : h \in Hrefs}
  \cup {<<[tag |-> "p"], A(h1), A(h2)>> : h1 \in Hrefs, h2 \in Hrefs}

\* the body of the site's error pages
ErrorBody == <<[tag |-> "p"], A(<<"/", "y">>)>>

FetchableParsed(parsed) ==
  ~parsed.err /\ parsed.scheme \in {STR_http, STR_https} /\ parsed.netloc /= <<>>

\* requests.get: the schemes it has an adapter for, and a host to connect to
Fetchable(u) == FetchableParsed(Urlparse(u))

\* fetch_page(url): (r.status_code, r.text), or (0, "") on a RequestException
FetchResults(u) ==
  {<<0, <<>>>>}
  \cup (IF Fetchable(u)
          THEN {<<404, ErrorBody>>, <<200, <<>>>>} \cup {<<200, b>> : b \in Bodies}
          ELSE {})

\* the max_pages a request can carry
MaxPagesArgs ==
  {None, NotAnInt} \cup {Int_(n) : n \in {0, ApiMaxPages + 1} \cup 1..MaxPages}

\* the values AUDIT_MAX_PAGES can have
EnvValues == {None, NotAnInt, Int_(0)}

(***************************************************************************)
(* The entry points.                                                       *)
(***************************************************************************)
Init ==
  /\ caller \in {"api", "cli"}
  /\ target_url \in Seeds
  /\ arg_max_pages \in MaxPagesArgs
  /\ env_max_pages \in EnvValues
  /\ pc = "request"
  /\ limit = 0
  /\ to_visit = <<>>
  /\ visited = {}
  /\ results = <<>>
  /\ url = <<>>
  /\ status_code = 0
  /\ html = <<>>
  /\ fetched = <<>>
  /\ exc = NoException
  /\ report = None
  /\ response = None
  /\ n_url = <<>>
  /\ n_once = Unset
  /\ n_twice = Unset

\* GET /audit: FastAPI validates max_pages against Query(None, ge=1, le=100)
\* and answers 422 without calling the handler when it fails
ApiAudit ==
  /\ pc = "request"
  /\ caller = "api"
  /\ IF \/ arg_max_pages = None
        \/ (arg_max_pages.kind = "int" /\ arg_max_pages.v >= ApiMinPages
                                       /\ arg_max_pages.v <= ApiMaxPages)
       THEN pc' = "run_audit" /\ UNCHANGED response
       ELSE /\ pc' = "end"
            /\ response' = [kind |-> "http", code |-> 422, names_target |-> FALSE]
  /\ UNCHANGED <<inputVars, crawlVars, normVars, exc, report>>

\* cli.main: argparse with type=int exits 2 on text that is no integer, and
\* takes every integer
CliMain ==
  /\ pc = "request"
  /\ caller = "cli"
  /\ IF arg_max_pages = NotAnInt
       THEN /\ pc' = "end"
            /\ response' = [kind |-> "exit", code |-> 2, names_target |-> FALSE]
       ELSE pc' = "run_audit" /\ UNCHANGED response
  /\ UNCHANGED <<inputVars, crawlVars, normVars, exc, report>>

\* get_config().crawl.max_pages: int(os.environ.get("AUDIT_MAX_PAGES", "50"))
ConfigMaxPages ==
  IF env_max_pages = None THEN DefaultMaxPages ELSE env_max_pages.v

\* run_audit up to the call of crawl_site; int() raises on AUDIT_MAX_PAGES
\* that is no integer
RunAudit ==
  /\ pc = "run_audit"
  /\ IF env_max_pages = NotAnInt
       THEN /\ pc' = "raised"
            /\ exc' = Raised("ValueError", "get_config")
            /\ UNCHANGED limit
       ELSE /\ pc' = "crawl_site"
            /\ limit' = IF arg_max_pages /= None THEN arg_max_pages.v
                        ELSE ConfigMaxPages
            /\ UNCHANGED exc
  /\ UNCHANGED <<inputVars, to_visit, visited, results, url, status_code, html,
                 fetched, normVars, report, response>>

(***************************************************************************)
(* crawl_site.                                                             *)
(***************************************************************************)
\* norm in to_visit
InSeq(x, q) == \E i \in 1..Len(q) : q[i] = x

\* the enqueue without the test of visited
EnqueueLink_NoVisitedCheck(link, norm, tv, vis, seed) ==
  IF ~InSeq(norm, tv) /\ _same_domain(seed, link) THEN Append(tv, norm) ELSE tv

\* the link enqueued as the page has it, not its key
EnqueueLink_RawLink(link, norm, tv, vis, seed) ==
  IF norm \notin vis /\ ~InSeq(norm, tv) /\ _same_domain(seed, link)
    THEN Append(tv, link) ELSE tv

\* if norm not in visited and norm not in to_visit and _same_domain(seed_url, link):
\*     to_visit.append(norm)
EnqueueLink(link, norm, tv, vis, seed) ==
  IF norm \notin vis /\ ~InSeq(norm, tv) /\ _same_domain(seed, link)
    THEN Append(tv, norm) ELSE tv

\* the loop leaving after the first link
EnqueueLinks_FirstOnly(links, tv, vis, seed) ==
  IF links = <<>> THEN tv
  ELSE EnqueueLink(Head(links), _normalize(Head(links)), tv, vis, seed)

RECURSIVE EnqueueLinks(_, _, _, _)
\* for link in page_data.internal_links: ... to_visit.append(norm)
EnqueueLinks(links, tv, vis, seed) ==
  IF links = <<>> THEN tv
  ELSE EnqueueLinks(Tail(links),
                    EnqueueLink(Head(links), _normalize(Head(links)), tv, vis, seed),
                    vis, seed)

\* the loop test with <= for <
LoopCondition_Le(tv, res, lim) == tv /= <<>> /\ Len(res) <= lim

\* while to_visit and len(results) < limit
LoopCondition(tv, res, lim) == tv /= <<>> /\ Len(res) < lim

\* crawl_site up to the loop: urlparse(seed_url) and _normalize(seed_url)
\* raise ValueError on a seed urlparse rejects
CrawlSiteEnter ==
  /\ pc = "crawl_site"
  /\ IF Urlparse(target_url).err
       THEN /\ pc' = "raised"
            /\ exc' = Raised("ValueError", "crawl_site")
            /\ UNCHANGED to_visit
       ELSE /\ pc' = "while"
            /\ to_visit' = <<_normalize(target_url)>>
            /\ UNCHANGED exc
  /\ visited' = {}
  /\ results' = <<>>
  /\ UNCHANGED <<inputVars, limit, url, status_code, html, fetched, normVars,
                 report, response>>

\* the dequeue without visited.add(url)
Dequeue_NoMark ==
  /\ pc = "while"
  /\ LoopCondition(to_visit, results, limit)
  /\ url' = Head(to_visit)
  /\ to_visit' = Tail(to_visit)
  /\ pc' = IF Head(to_visit) \in visited THEN "while" ELSE "fetch"
  /\ UNCHANGED <<inputVars, limit, visited, results, status_code, html, fetched,
                 normVars, exc, report, response>>

\* url = to_visit.pop(0); if url in visited: continue; visited.add(url)
Dequeue ==
  /\ pc = "while"
  /\ LoopCondition(to_visit, results, limit)
  /\ url' = Head(to_visit)
  /\ to_visit' = Tail(to_visit)
  /\ IF Head(to_visit) \in visited
       THEN pc' = "while" /\ UNCHANGED visited
       ELSE pc' = "fetch" /\ visited' = visited \cup {Head(to_visit)}
  /\ UNCHANGED <<inputVars, limit, results, status_code, html, fetched, normVars,
                 exc, report, response>>

\* status_code, html = fetch_page(url, ...): one GET, whatever the site answers
Fetch ==
  /\ pc = "fetch"
  /\ \E r \in FetchResults(url) :
       /\ status_code' = r[1]
       /\ html' = r[2]
  /\ fetched' = Append(fetched, url)
  /\ pc' = "fetched"
  /\ UNCHANGED <<inputVars, limit, to_visit, visited, results, url, normVars,
                 exc, report, response>>

\* the failed URL put back in the frontier to be tried again
Discard_Requeue ==
  /\ pc = "fetched"
  /\ (status_code /= 200 \/ html = <<>>)
  /\ pc' = "while"
  /\ status_code' = 0
  /\ html' = <<>>
  /\ to_visit' = Append(to_visit, url)
  /\ visited' = visited \ {url}
  /\ UNCHANGED <<inputVars, limit, results, url, fetched, normVars, exc, report,
                 response>>

\* if status_code != 200 or not html: continue
Discard ==
  /\ pc = "fetched"
  /\ (status_code /= 200 \/ html = <<>>)
  /\ pc' = "while"
  /\ status_code' = 0
  /\ html' = <<>>
  /\ UNCHANGED <<inputVars, limit, to_visit, visited, results, url, fetched,
                 normVars, exc, report, response>>

\* page_data = parse_page(url, html, status_code); results.append(page_data);
\* nothing catches the ValueError of parse_page
Parse ==
  /\ pc = "fetched"
  /\ ~(status_code /= 200 \/ html = <<>>)
  /\ LET parsed == parse_page(url, html, status_code)
     IN  IF parsed.raises
           THEN /\ pc' = "raised"
                /\ exc' = Raised("ValueError", "parse_page")
                /\ UNCHANGED results
           ELSE /\ pc' = "links"
                /\ results' = Append(results, parsed.page_data)
                /\ UNCHANGED exc
  /\ UNCHANGED <<inputVars, limit, to_visit, visited, url, status_code, html,
                 fetched, normVars, report, response>>

\* the loop over page_data.internal_links, to the end of the iteration
Enqueue ==
  /\ pc = "links"
  /\ to_visit' = EnqueueLinks(results[Len(results)].internal_links, to_visit,
                              visited, target_url)
  /\ pc' = "while"
  /\ status_code' = 0
  /\ html' = <<>>
  /\ UNCHANGED <<inputVars, limit, visited, results, url, fetched, normVars,
                 exc, report, response>>

\* the loop ends: return results
CrawlSiteReturn ==
  /\ pc = "while"
  /\ ~LoopCondition(to_visit, results, limit)
  /\ pc' = "returned"
  /\ UNCHANGED <<inputVars, crawlVars, normVars, exc, report, response>>

(***************************************************************************)
(* run_audit after the crawl, and the answers of the entry points.         *)
(***************************************************************************)
\* if not pages: raise HTTPException(status_code=422, detail=f"... {target_url} ...")
RunAuditNoPages ==
  /\ pc = "returned"
  /\ results = <<>>
  /\ pc' = "raised"
  /\ exc' = Raised("HTTPException", "run_audit")
  /\ UNCHANGED <<inputVars, crawlVars, normVars, report, response>>

\* return AuditReport(target_url=target_url, pages_crawled=len(pages), ...)
RunAuditReport ==
  /\ pc = "returned"
  /\ results /= <<>>
  /\ pc' = "reported"
  /\ report' = [kind |-> "AuditReport", target_url |-> target_url,
                pages_crawled |-> Len(results)]
  /\ UNCHANGED <<inputVars, crawlVars, normVars, exc, response>>

\* HTMLResponse(html) of the route, return 0 of cli.main
Respond ==
  /\ pc = "reported"
  /\ pc' = "end"
  /\ response' = IF caller = "api"
                   THEN [kind |-> "http", code |-> 200, names_target |-> TRUE]
                   ELSE [kind |-> "exit", code |-> 0, names_target |-> TRUE]
  /\ UNCHANGED <<inputVars, crawlVars, normVars, exc, report>>

\* an exception leaves run_audit: FastAPI answers an HTTPException with its
\* status and detail and anything else with 500; cli.main prints the detail
\* or str(e) and returns 1
Fail ==
  /\ pc = "raised"
  /\ pc' = "end"
  /\ response' =
       IF caller = "api"
         THEN [kind |-> "http",
               code |-> IF exc.type = "HTTPException" THEN 422 ELSE 500,
               names_target |-> (exc.type = "HTTPException")]
         ELSE [kind |-> "exit", code |-> 1,
               names_target |-> (exc.type = "HTTPException")]
  /\ UNCHANGED <<inputVars, crawlVars, normVars, exc, report>>

Next ==
  \/ ApiAudit
  \/ CliMain
  \/ RunAudit
  \/ CrawlSiteEnter
  \/ Dequeue
  \/ Fetch
  \/ Discard
  \/ Parse
  \/ Enqueue
  \/ CrawlSiteReturn
  \/ RunAuditNoPages
  \/ RunAuditReport
  \/ Respond
  \/ Fail

Spec == Init /\ [][Next]_vars

(***************************************************************************)
(* _normalize as a function of its own: the round trip                     *)
(* _normalize(_normalize(u)) over every short string of URL characters.    *)
(***************************************************************************)
\* the longest string of NormAlphabet appended to a prefix
MaxLen == 4

NormAlphabet == {"a", "A", "/", ":", "?", "#", ";", "["}

NormPrefixes == {<<>>, <<"h", "t", "t", "p", ":">>, HostA}

RECURSIVE Strings(_, _)
\* the strings over alphabet of length at most n
Strings(alphabet, n) ==
  IF n = 0 THEN {<<>>}
  ELSE Strings(alphabet, n - 1)
       \cup {Append(w, c) : w \in {v \in Strings(alphabet, n - 1) : Len(v) = n - 1},
                             c \in alphabet}

NormInputs == {p \o w : p \in NormPrefixes, w \in Strings(NormAlphabet, MaxLen)}

NormInit ==
  /\ n_url \in NormInputs
  /\ n_once = Unset
  /\ n_twice = Unset
  /\ pc = "normalize"
  /\ caller = "api"
  /\ target_url = <<>>
  /\ arg_max_pages = None
  /\ env_max_pages = None
  /\ limit = 0
  /\ to_visit = <<>>
  /\ visited = {}
  /\ results = <<>>
  /\ url = <<>>
  /\ status_code = 0
  /\ html = <<>>
  /\ fetched = <<>>
  /\ exc = NoException
  /\ report = None
  /\ response = None

\* _normalize(url)
NormalizeOnce ==
  /\ pc = "normalize"
  /\ n_once' = _normalize(n_url)
  /\ pc' = "normalized"
  /\ UNCHANGED <<inputVars, crawlVars, exc, report, response, n_url, n_twice>>

\* _normalize of the result; a ValueError of the first call is all there is
NormalizeTwice ==
  /\ pc = "normalized"
  /\ n_twice' = IF n_once = ValueError THEN ValueError ELSE _normalize(n_once)
  /\ pc' = "normalized_twice"
  /\ UNCHANGED <<inputVars, crawlVars, exc, report, response, n_url, n_once>>

NormNext ==
  \/ NormalizeOnce
  \/ NormalizeTwice

NormSpec == NormInit /\ [][NormNext]_vars

(***************************************************************************)
(* parse_page as a function of its own: one call on every short page.      *)
(***************************************************************************)
\* the most elements a page has
MaxElems == 3

\* the href attributes of the pages' <a> elements
ParseHrefs == {
  <<"/", "x">>,
  <<" ", "/", "x", " ">>,                           \* the same, in blanks
  <<"y", "#", "f">>,
  <<>>,                                             \* href=""
  <<"#", "t">>,                                     \* a bare fragment
  <<"J", "A", "v", "a", "s", "c", "r", "i", "p", "t", ":", "a">>,
  <<"h", "t", "t", "p", ":", "/", "/", "b", "/">>,  \* another host
  <<"/", "/", "[">>                                 \* urljoin raises on it
}

\* <p>, <a> without and with href, <img> without alt, with alt="" and alt="x"
ParseElements ==
  {[tag |-> "p"], [tag |-> "a"]}
  \cup {A(h) : h \in ParseHrefs}
  \cup {[tag |-> "img", src |-> <<"/", "i">>],
        [tag |-> "img", src |-> <<"/", "i">>, alt |-> <<>>],
        [tag |-> "img", alt |-> <<"x">>]}

RECURSIVE Pages(_)
\* the pages of at most n elements
Pages(n) ==
  IF n = 0 THEN {<<>>}
  ELSE Pages(n - 1)
       \cup {Append(w, e) : w \in {v \in Pages(n - 1) : Len(v) = n - 1},
                             e \in ParseElements}

\* the URLs the pages are fetched from
ParseUrls == {HostA \o <<"/">>, <<"h", "t", "t", "p", ":", "/", "/", "b", "/", "y">>}

ParseInit ==
  /\ url \in ParseUrls
  /\ html \in Pages(MaxElems)
  /\ status_code = 200
  /\ pc = "parse_page"
  /\ caller = "api"
  /\ target_url = <<>>
  /\ arg_max_pages = None
  /\ env_max_pages = None
  /\ limit = 0
  /\ to_visit = <<>>
  /\ visited = {}
  /\ results = <<>>
  /\ fetched = <<>>
  /\ exc = NoException
  /\ report = None
  /\ response = None
  /\ n_url = <<>>
  /\ n_once = Unset
  /\ n_twice = Unset

\* page_data = parse_page(url, html, status_code)
ParsePage ==
  /\ pc = "parse_page"
  /\ LET parsed == parse_page(url, html, status_code)
     IN  IF parsed.raises
           THEN /\ pc' = "raised"
                /\ exc' = Raised("ValueError", "parse_page")
                /\ UNCHANGED results
           ELSE /\ pc' = "parsed"
                /\ results' = <<parsed.page_data>>
                /\ UNCHANGED exc
  /\ UNCHANGED <<inputVars, limit, to_visit, visited, url, status_code, html,
                 fetched, normVars, report, response>>

ParseNext == ParsePage

ParseSpec == ParseInit /\ [][ParseNext]_vars

(***************************************************************************)
(* Properties of the crawl.                                                *)
(***************************************************************************)
NoDuplicates(q) == \A i, j \in 1..Len(q) : i /= j => q[i] /= q[j]

\* every link of the page normalizes to the page's own URL
OnlySelfLinks(page) ==
  /\ page.internal_links /= <<>>
  /\ \A i \in 1..Len(page.internal_links) :
       _normalize(page.internal_links[i]) = page.url

\* the page has a link that normalizes to key
LinksTo(page, key) ==
  \E i \in 1..Len(page.internal_links) : _normalize(page.internal_links[i]) = key

\* C1: no URL is passed to fetch_page twice in one crawl, so the seed is never
\* fetched again however many pages link back to it, and a crawl whose seed
\* page links only to itself returns that one page after one fetch.
C1_FetchedAtMostOnce ==
  /\ NoDuplicates(fetched)
  /\ (pc = "returned" /\ results /= <<>> /\ OnlySelfLinks(results[1]))
       => (Len(results) = 1 /\ Len(fetched) = 1)

\* a crawl returned two pages that both link back to the seed
C1_Witness ==
  /\ pc = "returned"
  /\ Len(results) = 2
  /\ \A k \in 1..2 : LinksTo(results[k], fetched[1])

Netloc(u) == Urlparse(u).netloc

\* C2: every URL in the frontier and every URL fetched has the netloc of the
\* seed URL as given, and every link the extractor kept passes the
\* scheduler's seed-host test.
C2_AsClaimed ==
  /\ \A i \in 1..Len(to_visit) : Netloc(to_visit[i]) = Netloc(target_url)
  /\ \A i \in 1..Len(fetched) : Netloc(fetched[i]) = Netloc(target_url)
  /\ \A k \in 1..Len(results) : \A i \in 1..Len(results[k].internal_links) :
       _same_domain(target_url, results[k].internal_links[i])

\* C3: with a positive cap the results never number more than the cap, and
\* no fetch is about to be issued once they number the cap.
C3_CapNeverExceeded ==
  limit >= 1 => /\ Len(results) <= limit
                /\ pc = "fetch" => Len(results) < limit

\* the crawl returned at the cap with URLs left in the frontier
C3_Witness ==
  /\ pc = "returned"
  /\ limit >= 1
  /\ Len(results) = limit
  /\ to_visit /= <<>>

Range(q) == {q[i] : i \in 1..Len(q)}

ParseError == Raised("ValueError", "parse_page")

\* crawl_site is over: it returned, or an exception left its loop
CrawlOver == pc = "returned" \/ (pc = "raised" /\ exc = ParseError)

\* every fetch_page call answered 200 with a body: each of them went on to
\* parse_page, which appended a result or (the last one) raised
EveryFetchSucceeded ==
  Len(fetched) = Len(results) + (IF exc = ParseError THEN 1 ELSE 0)

\* the URL keys the page links to on the seed's host
Linked(page) ==
  {_normalize(page.internal_links[i]) :
     i \in {j \in 1..Len(page.internal_links) :
              _same_domain(target_url, page.internal_links[j])}}

RECURSIVE Within(_)
\* the URL keys at link distance at most d from the seed
Within(d) ==
  IF d = 0 THEN {_normalize(target_url)}
  ELSE Within(d - 1)
       \cup UNION {Linked(results[k]) :
                     k \in {j \in 1..Len(results) : results[j].url \in Within(d - 1)}}

Distance(key) == SetMin({d \in 0..Len(results) : key \in Within(d)})

\* the seed first, and no page before a page nearer to the seed
BreadthFirst ==
  results /= <<>> =>
    /\ results[1].url = _normalize(target_url)
    /\ \A i, j \in 1..Len(results) :
         i < j => Distance(results[i].url) <= Distance(results[j].url)

\* C4: when every fetch succeeded and the crawl found more than limit
\* distinct pages on the seed's host, crawl_site returns exactly limit
\* entries, in breadth-first order from the seed.
C4_AsClaimed ==
  (CrawlOver /\ EveryFetchSucceeded
     /\ Cardinality(Range(fetched) \cup Range(to_visit)) > limit)
  => (pc = "returned" /\ Len(results) = limit /\ BreadthFirst)

\* C5: when the loop of crawl_site is over, the frontier is empty or the
\* results number the cap.
C5_AsClaimed == CrawlOver => (to_visit = <<>> \/ Len(results) >= limit)

\* fetch_page has just answered url with a status other than 200 or no body
FailedFetch == pc = "fetched" /\ (status_code /= 200 \/ html = <<>>)

\* C6: the step after a failed fetch leaves the results, the frontier and the
\* visited set as they are, so nothing is appended or enqueued for the URL
\* and it is not put back; and no URL once fetched is in the frontier or is
\* fetched again.
C6_DiscardedForGood ==
  /\ [](/\ NoDuplicates(fetched)
        /\ \A i \in 1..Len(fetched) : ~InSeq(fetched[i], to_visit)
        /\ \A k \in 1..Len(results) : results[k].status_code = 200)
  /\ [][FailedFetch => /\ results' = results
                       /\ to_visit' = to_visit
                       /\ visited' = visited
                       /\ fetched' = fetched]_vars

\* a crawl went on after a failed fetch and returned the pages it collected
C6_Witness ==
  /\ pc = "returned"
  /\ results /= <<>>
  /\ \E i \in 1..Len(fetched) :
       /\ \A k \in 1..Len(results) : results[k].url /= fetched[i]
       /\ \E k \in 1..Len(results) : \E j \in (i + 1)..Len(fetched) :
            results[k].url = fetched[j]

\* C7: no failure of parse_page on a page ends crawl_site with an exception.
C7_AsClaimed == exc /= ParseError

\* run_audit called crawl_site and the entry point has answered
CrawlCalled ==
  /\ pc = "end"
  /\ \/ report /= None
     \/ exc \in {Raised("ValueError", "crawl_site"), ParseError,
                 Raised("HTTPException", "run_audit")}

\* HTTP 422 of the API, a non-zero exit code of the CLI
ClientError ==
  IF caller = "api" THEN response.code = 422 ELSE response.code /= 0

\* C8: a crawl that collected no page ends without a report, in a
\* client-error answer that names the target URL; a crawl that collected
\* pages ends in a report whose pages_crawled is their number.
C8_AsClaimed ==
  CrawlCalled =>
    IF results = <<>>
      THEN report = None /\ ClientError /\ response.names_target
      ELSE report /= None /\ report.pages_crawled = Len(results)

\* C9: crawl_site runs only with a cap within the accepted range.
C9_AsClaimed ==
  pc \in {"while", "fetch", "fetched", "links", "returned"}
    => (limit >= ApiMinPages /\ limit <= ApiMaxPages)

\* C10: whatever _normalize returns, _normalize maps to itself.
C10_AsClaimed ==
  (pc = "normalized_twice" /\ n_once /= ValueError) => n_twice = n_once

(***************************************************************************)
(* Properties of _normalize.                                               *)
(***************************************************************************)
\* the text scheme://netloc of a parsed URL
Origin(parsed) == parsed.scheme \o <<":", "/", "/">> \o parsed.netloc

\* u is written scheme://host and a path, nothing else
PlainParsed(u, parsed) ==
  /\ ~parsed.err
  /\ parsed.scheme /= <<>>
  /\ parsed.netloc /= <<>>
  /\ u = Origin(parsed) \o parsed.path

Plain(u) == PlainParsed(u, Urlparse(u))

\* the path ends in one slash, after a character that is no slash
OneTrailingSlash(path) ==
  /\ Len(path) >= 2
  /\ path[Len(path)] = "/"
  /\ path[Len(path) - 1] /= "/"

WithoutLast(u) == SubSeq(u, 1, Len(u) - 1)

\* C11: of a URL scheme://host/path, the form with one trailing slash and
\* the form without it both normalize to the form without it, and the form
\* with an empty path normalizes to scheme://host/.
C11_AsClaimed ==
  (pc = "normalized" /\ Plain(n_url)) =>
     /\ Urlparse(n_url).path = <<>> => n_once = n_url \o <<"/">>
     /\ OneTrailingSlash(Urlparse(n_url).path) =>
          /\ n_once = WithoutLast(n_url)
          /\ _normalize(WithoutLast(n_url)) = WithoutLast(n_url)

\* np is path without its trailing slashes, all of them
StrippedOf(path, np) ==
  \E k \in 0..Len(path) :
    /\ np = SubSeq(path, 1, k)
    /\ k > 0 => path[k] /= "/"
    /\ \A i \in (k + 1)..Len(path) : path[i] = "/"

\* out is scheme://netloc and "/" for np empty, else np
KeyOf(parsed, np, out) ==
  out = Origin(parsed) \o (IF np = <<>> THEN <<"/">> ELSE np)

\* the claim's path: "/" for a path of slashes only, else the path less one
\* trailing slash
LessOneSlash(path) ==
  IF \A i \in 1..Len(path) : path[i] = "/" THEN <<>>
  ELSE IF path[Len(path)] = "/" THEN WithoutLast(path)
  ELSE path

\* C12 as claimed: an empty or slash-only path becomes "/", and any other
\* path loses exactly one trailing slash.
C12_AsClaimed ==
  (pc = "normalized" /\ n_once /= ValueError) =>
     KeyOf(Urlparse(n_url), LessOneSlash(Urlparse(n_url).path), n_once)

\* C12, amended: an empty or slash-only path becomes "/", and any other path
\* loses all of its trailing slashes.
C12_StripsEverySlash ==
  (pc = "normalized" /\ n_once /= ValueError) =>
     \E k \in 0..Len(Urlparse(n_url).path) :
        /\ StrippedOf(Urlparse(n_url).path, SubSeq(Urlparse(n_url).path, 1, k))
        /\ KeyOf(Urlparse(n_url), SubSeq(Urlparse(n_url).path, 1, k), n_once)

\* http://a/a// was normalized to http://a/a
C12_Witness ==
  /\ pc = "normalized"
  /\ n_url = HostA \o <<"/", "a", "/", "/">>
  /\ n_once = HostA \o <<"/", "a">>

(***************************************************************************)
(* Properties of the dedup key in the crawl.                               *)
(***************************************************************************)
HasQueryOrFragment(u) == \E i \in 1..Len(u) : u[i] \in {"?", "#"}

\* u up to its query string and fragment
StripQueryFragment(u) ==
  IF HasQueryOrFragment(u)
    THEN SubSeq(u, 1, SetMin({i \in 1..Len(u) : u[i] \in {"?", "#"}}) - 1)
    ELSE u

\* the URLs the crawl has met: the seed and the links of the pages collected
Discovered ==
  {target_url} \cup UNION {Range(results[k].internal_links) : k \in 1..Len(results)}

\* how many times key was fetched or is waiting in the frontier
Occurrences(key) ==
  Cardinality({i \in 1..Len(fetched) : fetched[i] = key})
  + Cardinality({i \in 1..Len(to_visit) : to_visit[i] = key})

\* C13: a URL the crawl met and the same URL without its query string and
\* fragment have the same key, the key has neither, the key is fetched or
\* queued at most once, and the URL with a query string or fragment is
\* itself never fetched or queued.
C13_QueryAndFragmentDiscarded ==
  \A l \in Discovered :
    ~Urlparse(l).err =>
      /\ _normalize(l) = _normalize(StripQueryFragment(l))
      /\ ~HasQueryOrFragment(_normalize(l))
      /\ Occurrences(_normalize(l)) <= 1
      /\ HasQueryOrFragment(l) => Occurrences(l) = 0

\* a page linked to one page twice, with and without a query string and
\* fragment, and the crawl fetched that page
C13_Witness ==
  /\ pc = "returned"
  /\ \E k \in 1..Len(results) : \E l1, l2 \in Range(results[k].internal_links) :
       /\ HasQueryOrFragment(l1)
       /\ ~HasQueryOrFragment(l2)
       /\ _normalize(l1) = _normalize(l2)
       /\ InSeq(_normalize(l1), fetched)
       /\ _normalize(l1) /= results[k].url

(***************************************************************************)
(* Properties of parse_page.                                               *)
(***************************************************************************)
\* the href, stripped, starts with # or, whatever its case, with javascript:
FragmentOrJavascript(href) ==
  \/ (Len(href) >= 1 /\ href[1] = "#")
  \/ /\ Len(href) >= Len(STR_javascript)
     /\ \A i \in 1..Len(STR_javascript) :
          href[i] \in {STR_javascript[i]} \cup {c \in DOMAIN UpperToLower :
                                                 UpperToLower[c] = STR_javascript[i]}

\* what the i-th element's href resolves to on the page
Resolved(i) == Urljoin(url, Strip(html[i].href))

\* the <a href> elements of the page that are neither fragments nor
\* javascript: links and resolve to the page's own host
KeptAnchors ==
  {i \in 1..Len(html) :
     /\ html[i].tag = "a"
     /\ "href" \in DOMAIN html[i]
     /\ ~FragmentOrJavascript(Strip(html[i].href))
     /\ Netloc(Resolved(i)) = Netloc(url)}

\* where the page first links to link
FirstSeen(link) == SetMin({i \in KeptAnchors : Resolved(i) = link})

\* C14: the internal_links of a parsed page have no duplicates, are all on
\* the host of the page, are exactly what the page's <a href> elements
\* resolve to, but for the hrefs starting with # or javascript: and the links
\* to other hosts, and are in the order the page first has them.
C14_InternalLinks ==
  pc = "parsed" =>
    /\ NoDuplicates(results[1].internal_links)
    /\ \A l \in Range(results[1].internal_links) : Netloc(l) = Netloc(url)
    /\ Range(results[1].internal_links) = {Resolved(i) : i \in KeptAnchors}
    /\ \A a, b \in 1..Len(results[1].internal_links) :
         a < b => FirstSeen(results[1].internal_links[a])
                    < FirstSeen(results[1].internal_links[b])

\* a page with a javascript: link, then a link, then the same link again
C14_Witness ==
  /\ pc = "parsed"
  /\ Len(html) = 3
  /\ html[1] \in {A(h) : h \in {g \in ParseHrefs : FragmentOrJavascript(g)}}
  /\ html[2] = A(<<"/", "x">>)
  /\ html[3] = A(<<" ", "/", "x", " ">>)
  /\ results[1].internal_links = <<HostA \o <<"/", "x">>>>

\* the <img> elements of the page, in order
ImgElements == SelectSeq(html, LAMBDA e : e.tag = "img")

\* C15: the images of a parsed page are its <img> elements in order; alt is
\* None for an <img> without alt and for an <img alt="">, and is the text of
\* any other alt.
C15_AsClaimed ==
  pc = "parsed" =>
    /\ Len(results[1].images) = Len(ImgElements)
    /\ \A i \in 1..Len(ImgElements) :
         results[1].images[i].alt =
           IF "alt" \in DOMAIN ImgElements[i] /\ ImgElements[i].alt /= <<>>
             THEN Str_(ImgElements[i].alt) ELSE None

(***************************************************************************)
(* Properties of the frontier, the visited set and the results.            *)
(***************************************************************************)
\* C16: the frontier never holds a URL twice nor a URL already visited, and
\* every dequeue goes on to a fetch and adds exactly one new URL, the one
\* dequeued, to the visited set.
C16_FrontierFresh ==
  /\ [](/\ NoDuplicates(to_visit)
        /\ \A i \in 1..Len(to_visit) : to_visit[i] \notin visited)
  /\ [][(pc = "while" /\ LoopCondition(to_visit, results, limit)) =>
          /\ pc' = "fetch"
          /\ visited' = visited \cup {Head(to_visit)}
          /\ Cardinality(visited') = Cardinality(visited) + 1]_vars

\* the second page collected links back to the first, and the crawl goes on
C16_Witness ==
  /\ pc = "while"
  /\ Len(results) = 2
  /\ LinksTo(results[2], results[1].url)
  /\ to_visit /= <<>>

ResultUrls == [k \in 1..Len(results) |-> results[k].url]

\* the keys reachable from the seed through the links of the pages collected
Reachable == Within(Len(results))

\* C17: a crawl that returns with the frontier empty and fewer results than
\* the cap has fetched every key reachable from the seed and no other, and
\* its results are one PageData for each of them whose fetch succeeded: every
\* fetch answering 200 with a body appends the PageData of the URL fetched,
\* and no result is of a URL outside the reachable keys or of one URL twice.
C17_FrontierExhausted ==
  /\ []((pc = "returned" /\ to_visit = <<>> /\ Len(results) < limit) =>
          /\ Range(fetched) = Reachable
          /\ Range(ResultUrls) \subseteq Reachable
          /\ NoDuplicates(ResultUrls))
  /\ [][(pc = "fetched" /\ status_code = 200 /\ html /= <<>> /\ pc' /= "raised") =>
          /\ Len(results') = Len(results) + 1
          /\ results'[Len(results')].url = fetched[Len(fetched)]
          /\ SubSeq(results', 1, Len(results)) = results]_vars

\* a crawl ran out of frontier below the cap, with two pages collected and a
\* reachable page whose fetch failed
C17_Witness ==
  /\ pc = "returned"
  /\ to_visit = <<>>
  /\ Len(results) = 2
  /\ Len(results) < limit
  /\ Len(fetched) = 3

\* C18: every URL fetched is the key of the seed or of a link of a page
\* collected, and has no query string or fragment; the page being added to
\* the results has the URL just fetched; every result's URL is in the visited
\* set and was fetched; and no two results have the same URL.
C18_FetchedAreKeys ==
  /\ \A u \in Range(fetched) :
       /\ ~HasQueryOrFragment(u)
       /\ \E l \in Discovered : ~Urlparse(l).err /\ u = _normalize(l)
  /\ pc = "links" => results[Len(results)].url = fetched[Len(fetched)]
  /\ \A k \in 1..Len(results) :
       results[k].url \in visited /\ InSeq(results[k].url, fetched)
  /\ NoDuplicates(ResultUrls)

\* the crawl collected a page it met through a link with a query string, and
\* another one
C18_Witness ==
  /\ pc = "links"
  /\ Len(results) = 3
  /\ \E l \in Discovered :
       HasQueryOrFragment(l) /\ _normalize(l) = results[Len(results)].url

=============================================================================
